---- MODULE Spec2Model ----
(***************************************************************************)
(* Model of the temporian operators covered by the specification:          *)
(*   - the since-last numpy implementation (SinceLastNumpyImplementation), *)
(*   - the moving_min window operator,                                     *)
(*   - the rename operator (RenameOperator / rename).                      *)
(* Each operator has its own specification (SpecSinceLast, SpecMovingMin,  *)
(* SpecRename) over the shared variable tuple; the variables of the other  *)
(* operators stay at their idle values.                                    *)
(***************************************************************************)
EXTENDS Integers, Sequences, FiniteSets, TLC

\* ---------------------------------------------------------------- bounds
\* Timestamps are drawn from 1..MaxTime, a group holds at most MaxLen events.
MaxTime == 2
MaxLen == 2

\* moving_min: input timestamps are drawn from 1..MaxWinTime, an input group
\* holds at most MaxWinLen events, window_length is drawn from 0..MaxWindow.
MaxWinTime == 3
MaxWinLen == 3
MaxWindow == 2

\* DataFrame conversion: a table holds at most MaxRows rows.
MaxRows == 3

\* Index keys of the materialized event sets.
IndexKeys == {"k1", "k2"}

\* ---------------------------------------------------------------- values
\* A float64 cell: either the missing value NaN or a number.
NaN == [nan |-> TRUE, v |-> 0]
Num(x) == [nan |-> FALSE, v |-> x]

Times == 1..MaxTime

\* Ascending (duplicates allowed) timestamp sequences of one index group.
IsAscending(s) == \A i \in 1..(Len(s) - 1) : s[i] <= s[i + 1]
AscSeqs == {s \in UNION {[1..n -> Times] : n \in 0..MaxLen} : IsAscending(s)}

\* All mappings index_key -> timestamps over a subset of the index keys.
TimestampMaps == UNION {[ks -> AscSeqs] : ks \in SUBSET IndexKeys}

\* All iteration orders (dict insertion orders) of a key set.
Orders(ks) ==
    {o \in [1..Cardinality(ks) -> ks] : \A i, j \in 1..Cardinality(ks) : o[i] = o[j] => i = j}

EmptyMap == [k \in {} |-> <<>>]

VARIABLES
    \* --- since-last evaluation
    input,          \* input.data restricted to timestamps: index_key -> timestamps
    input_order,    \* iteration order of input.iterindex()
    sampling,       \* [given |-> BOOLEAN, data |-> index_key -> timestamps]
    output_event,   \* output_event.data: index_key -> [timestamps, features]
    sl_pos,         \* number of index groups already processed by the loop
    sl_pc,          \* "idle" | "ready" | "loop" | "returned" | "raised"
    \* --- moving_min on one index group with one feature
    mm_input,       \* [timestamps, values] of the input group
    mm_sampling,    \* [given |-> BOOLEAN, timestamps |-> ...] of the same group
    window_length,  \* the window_length argument of moving_min
    mm_op,          \* the MovingMinOperator built by moving_min
    mm_output,      \* [timestamps, values] of the evaluated output group
    mm_pc,          \* "idle" | "ready" | "built" | "raised" | "evaluated"
    \* --- rename(event, features, index)
    rn_event,       \* the source node (Event) passed to rename
    rn_features,    \* the features argument: None, a str or a dict
    rn_index,       \* the index argument: None, a str or a dict
    rn_self,        \* the RenameOperator under construction
    rn_error,       \* the exception raised by the constructor, "" when none
    rn_result,      \* the node handed to the caller of rename()
    rn_prev,        \* the previous rename() call of the chain, if any
    rn_pc,          \* "idle" | "ready" | "features_done" | "index_done" |
                    \* "wired" | "checked" | "returned" | "raised"
    \* --- calendar hour operator
    cal_sampling,   \* the sampling EventSet: index_key -> unix timestamps
    cal_op,         \* the calendar operator built on the sampling node
    cal_output,     \* output["event"].data: index_key -> [timestamps, features]
    cal_pc,         \* "idle" | "ready" | "built" | "raised" | "evaluated"
    \* --- DataFrame <-> NumpyEvent conversion
    tb_df,          \* the input DataFrame: a sequence of rows
    tb_event,       \* the NumpyEvent built by dataframe_to_event
    tb_out,         \* the DataFrame built by event_to_dataframe
    tb_pc           \* "idle" | "ready" | "event" | "done" | "raised"

slvars == <<input, input_order, sampling, output_event, sl_pos, sl_pc>>
mmvars == <<mm_input, mm_sampling, window_length, mm_op, mm_output, mm_pc>>

rnvars == <<rn_event, rn_features, rn_index, rn_self, rn_error, rn_result, rn_prev, rn_pc>>

calvars == <<cal_sampling, cal_op, cal_output, cal_pc>>
tbvars == <<tb_df, tb_event, tb_out, tb_pc>>

vars == <<slvars, mmvars, rnvars, calvars, tbvars>>

\* ------------------------------------------------- native since_last kernel
\* operators_cc.since_last(event_timestamps, sampling_timestamps): merge-walk
\* of the two ascending sequences with one forward pointer into the events.
RECURSIVE AdvanceEvent(_, _, _)
AdvanceEvent(ev, next_event_idx, t) ==
    IF next_event_idx < Len(ev) /\ ev[next_event_idx + 1] <= t
    THEN AdvanceEvent(ev, next_event_idx + 1, t)
    ELSE next_event_idx

RECURSIVE SinceLastWalk(_, _, _, _)
SinceLastWalk(ev, smp, sampling_idx, next_event_idx) ==
    IF sampling_idx > Len(smp) THEN <<>>
    ELSE LET t == smp[sampling_idx]
             n == AdvanceEvent(ev, next_event_idx, t)
             cell == IF n = 0 THEN NaN ELSE Num(t - ev[n])
         IN <<cell>> \o SinceLastWalk(ev, smp, sampling_idx + 1, n)

cc_since_last(event_timestamps, sampling_timestamps) ==
    SinceLastWalk(event_timestamps, sampling_timestamps, 1, 0)

\* np.diff(a): a[i+1] - a[i], of length max(len(a) - 1, 0).
np_diff_Reversed(a) ==
    IF Len(a) = 0 THEN <<>> ELSE [i \in 1..(Len(a) - 1) |-> Num(a[i] - a[i + 1])]
np_diff(a) ==
    IF Len(a) = 0 THEN <<>> ELSE [i \in 1..(Len(a) - 1) |-> Num(a[i + 1] - a[i])]

\* np.concatenate([[np.nan], np.diff(timestamps)])
NoSamplingValuesNoNaN(timestamps) == np_diff(timestamps)
NoSamplingValues(timestamps) == <<NaN>> \o np_diff(timestamps)

\* IndexData([feature_values], timestamps)
IndexData(feature_values, timestamps) ==
    [timestamps |-> timestamps, features |-> <<feature_values>>]

\* Body of one loop iteration when sampling is given and holds the key.
SampledGroupSwapped(index_timestamps, sampling_timestamps) ==
    IndexData(cc_since_last(sampling_timestamps, index_timestamps), index_timestamps)
SampledGroup(index_timestamps, sampling_timestamps) ==
    IndexData(cc_since_last(index_timestamps, sampling_timestamps), sampling_timestamps)

\* Body of one loop iteration without sampling.
UnsampledGroup(index_timestamps) ==
    IndexData(NoSamplingValues(index_timestamps), index_timestamps)

\* output_event[index_key] = data
SetItem(m, k, d) == [x \in (DOMAIN m) \cup {k} |-> IF x = k THEN d ELSE m[x]]

\* Idle values of each operator's variables.
IdleSinceLast ==
    /\ input = EmptyMap
    /\ input_order = <<>>
    /\ sampling = [given |-> FALSE, data |-> EmptyMap]
    /\ output_event = EmptyMap
    /\ sl_pos = 0
    /\ sl_pc = "idle"

NoGroup == [timestamps |-> <<>>, values |-> <<>>]
NoOp == [built |-> FALSE]

IdleMovingMin ==
    /\ mm_input = NoGroup
    /\ mm_sampling = [given |-> FALSE, timestamps |-> <<>>]
    /\ window_length = 0
    /\ mm_op = NoOp
    /\ mm_output = NoGroup
    /\ mm_pc = "idle"

\* Python argument values: None, a str, or a dict (a function on its keys).
EmptyDict == [k \in {} |-> ""]
None == [kind |-> "none", s |-> "", d |-> EmptyDict]
Str(x) == [kind |-> "str", s |-> x, d |-> EmptyDict]
Dict(m) == [kind |-> "dict", s |-> "", d |-> m]

NoSampling == [index_levels |-> <<>>, is_unix_timestamp |-> FALSE, creator |-> "None"]
NoNode == [exists |-> FALSE, features |-> <<>>, sampling |-> NoSampling, creator |-> "None"]
NoOperator ==
    [created |-> FALSE, features |-> EmptyDict, index |-> EmptyDict,
     attributes |-> EmptyMap, inputs |-> EmptyMap, outputs |-> EmptyMap]
NoCall == [made |-> FALSE, event |-> NoNode, features |-> None, index |-> None]

IdleRename ==
    /\ rn_event = NoNode
    /\ rn_features = None
    /\ rn_index = None
    /\ rn_self = NoOperator
    /\ rn_error = ""
    /\ rn_result = NoNode
    /\ rn_prev = NoCall
    /\ rn_pc = "idle"

NoCalendarOp == [built |-> FALSE, inputs |-> EmptyMap, outputs |-> EmptyMap]

IdleCalendar ==
    /\ cal_sampling = EmptyMap
    /\ cal_op = NoCalendarOp
    /\ cal_output = EmptyMap
    /\ cal_pc = "idle"

NoEvent == [data |-> EmptyMap, sampling |-> EmptyMap, order |-> <<>>]

IdleTabular ==
    /\ tb_df = <<>>
    /\ tb_event = NoEvent
    /\ tb_out = <<>>
    /\ tb_pc = "idle"

\* ------------------------------------------------------- since-last actions
InitSinceLast ==
    /\ IdleMovingMin
    /\ IdleRename
    /\ IdleCalendar
    /\ IdleTabular
    /\ input \in TimestampMaps
    /\ input_order \in Orders(DOMAIN input)
    /\ sampling \in ({[given |-> FALSE, data |-> EmptyMap]}
                     \cup {[given |-> TRUE, data |-> d] : d \in TimestampMaps})
    /\ output_event = EmptyMap
    /\ sl_pos = 0
    /\ sl_pc = "ready"

\* __call__ entry: the empty output EventSet is created, the loop starts.
SinceLastCall ==
    /\ sl_pc = "ready"
    /\ output_event' = EmptyMap
    /\ sl_pos' = 0
    /\ sl_pc' = "loop"
    /\ UNCHANGED <<input, input_order, sampling, mmvars, rnvars, calvars, tbvars>>

\* One iteration with sampling: sampling.data[index_key] is looked up first.
SinceLastStepSampled ==
    /\ sl_pc = "loop"
    /\ sl_pos < Len(input_order)
    /\ sampling.given
    /\ LET index_key == input_order[sl_pos + 1]
       IN /\ index_key \in DOMAIN sampling.data
          /\ output_event' = SetItem(output_event, index_key,
                                     SampledGroup(input[index_key], sampling.data[index_key]))
    /\ sl_pos' = sl_pos + 1
    /\ UNCHANGED <<input, input_order, sampling, sl_pc, mmvars, rnvars, calvars, tbvars>>

\* sampling.data[index_key] raises KeyError: the call ends without a result.
SinceLastStepKeyError ==
    /\ sl_pc = "loop"
    /\ sl_pos < Len(input_order)
    /\ sampling.given
    /\ input_order[sl_pos + 1] \notin DOMAIN sampling.data
    /\ sl_pc' = "raised"
    /\ output_event' = EmptyMap
    /\ UNCHANGED <<input, input_order, sampling, sl_pos, mmvars, rnvars, calvars, tbvars>>

\* One iteration without sampling.
SinceLastStepUnsampled ==
    /\ sl_pc = "loop"
    /\ sl_pos < Len(input_order)
    /\ ~sampling.given
    /\ LET index_key == input_order[sl_pos + 1]
       IN output_event' = SetItem(output_event, index_key, UnsampledGroup(input[index_key]))
    /\ sl_pos' = sl_pos + 1
    /\ UNCHANGED <<input, input_order, sampling, sl_pc, mmvars, rnvars, calvars, tbvars>>

\* return {"output": output_event}
SinceLastReturn ==
    /\ sl_pc = "loop"
    /\ sl_pos = Len(input_order)
    /\ sl_pc' = "returned"
    /\ UNCHANGED <<input, input_order, sampling, output_event, sl_pos, mmvars, rnvars, calvars, tbvars>>

NextSinceLast ==
    \/ SinceLastCall
    \/ SinceLastStepSampled
    \/ SinceLastStepKeyError
    \/ SinceLastStepUnsampled
    \/ SinceLastReturn

SpecSinceLast == InitSinceLast /\ [][NextSinceLast]_vars

\* ------------------------------------------------- since-last properties
Max(S) == CHOOSE x \in S : \A y \in S : y <= x

\* Reference value of since-last at query time t over the group's events:
\* t minus the largest event timestamp <= t, NaN when there is none.
SinceLastRef(ev, t) ==
    LET before == {ev[i] : i \in {j \in 1..Len(ev) : ev[j] <= t}}
    IN IF before = {} THEN NaN ELSE Num(t - Max(before))

AllNaN(vals) == \A i \in 1..Len(vals) : vals[i] = NaN

\* C1: without sampling, every output group carries the input group's
\* timestamps and one feature whose first element is NaN and whose i-th
\* element (i >= 2, 1-based) is ts[i] - ts[i-1]; after the return every input
\* group has its output group.
C1_NoSamplingBackwardDiff ==
    (sl_pc \in {"loop", "returned"} /\ ~sampling.given) =>
        /\ \A k \in DOMAIN output_event :
              LET ts == input[k]
                  g == output_event[k]
              IN /\ g.timestamps = ts
                 /\ Len(g.features) = 1
                 /\ Len(g.features[1]) >= Len(ts)
                 /\ Len(g.features[1]) >= 1
                 /\ g.features[1][1] = NaN
                 /\ \A i \in 2..Len(ts) : g.features[1][i] = Num(ts[i] - ts[i - 1])
        /\ sl_pc = "returned" => DOMAIN output_event = DOMAIN input

C1_Witness ==
    /\ sl_pc = "returned"
    /\ ~sampling.given
    /\ \E k \in DOMAIN output_event :
          /\ input[k] = <<1, 2>>
          /\ output_event[k].features[1] = <<NaN, Num(1)>>

C3_SamplingOnlyGroupAllMissing ==
    (sl_pc = "returned" /\ sampling.given) =>
        \A k \in (DOMAIN sampling.data) \ (DOMAIN input) :
            /\ k \in DOMAIN output_event
            /\ output_event[k].timestamps = sampling.data[k]
            /\ Len(output_event[k].features) = 1
            /\ Len(output_event[k].features[1]) = Len(sampling.data[k])
            /\ AllNaN(output_event[k].features[1])

\* C4: with sampling, a group of the input that the sampling lacks is skipped:
\* the call does not raise, and the returned output holds exactly the groups
\* present on both sides.
C4_InputOnlyGroupSkipped ==
    (sampling.given /\ (DOMAIN input) \ (DOMAIN sampling.data) # {}) =>
        /\ sl_pc # "raised"
        /\ sl_pc = "returned" =>
              DOMAIN output_event = (DOMAIN input) \cap (DOMAIN sampling.data)

\* ================================================================ moving_min
FeatureValues == {NaN, Num(1), Num(2)}

WinTimes == 1..MaxWinTime
IsAscendingGroup(g) == Len(g.timestamps) = Len(g.values) /\ IsAscending(g.timestamps)

\* One index group: ascending timestamps with one float value per timestamp.
WinGroups ==
    UNION {{[timestamps |-> ts, values |-> vs] :
                ts \in {s \in [1..n -> WinTimes] : IsAscending(s)},
                vs \in [1..n -> FeatureValues]} : n \in 0..MaxWinLen}

WinSamplings ==
    {s \in UNION {[1..n -> WinTimes] : n \in 0..MaxLen} : IsAscending(s)}

\* normalize_duration(window_length): a strictly positive duration, as float.
ValidDuration(x) == x > 0
normalize_duration(x) == x

\* moving_min(input, window_length, sampling): builds the MovingMinOperator
\* with the normalized window length and the optional sampling.
moving_min_DropSampling(input_node, wl, sampling_node) ==
    [built |-> TRUE,
     input |-> input_node,
     window_length |-> normalize_duration(wl),
     sampling |-> [given |-> FALSE, timestamps |-> <<>>]]
moving_min(input_node, wl, sampling_node) ==
    [built |-> TRUE,
     input |-> input_node,
     window_length |-> normalize_duration(wl),
     sampling |-> sampling_node]

\* MovingMinOperator.get_feature_dtype: the output keeps the input dtype, so
\* the output cells are float cells like the input cells.
get_feature_dtype(feature_dtype) == feature_dtype

\* --- sliding-window evaluation of one (index group, feature) pair:
\* `end` events have entered the window, `begin` events have left it, `dq` is
\* the monotonic deque of candidate minima (indices of non-missing values in
\* the window, values strictly increasing from front to back).
RECURSIVE PopBack(_, _, _)
PopBack(dq, vals, x) ==
    IF Len(dq) > 0 /\ vals[dq[Len(dq)]].v >= x.v
    THEN PopBack(SubSeq(dq, 1, Len(dq) - 1), vals, x)
    ELSE dq

PushEvent(dq, vals, i) ==
    IF vals[i].nan THEN dq ELSE Append(PopBack(dq, vals, vals[i]), i)

RECURSIVE Admit(_, _, _, _, _)
\* Admit every event with timestamp <= t; returns <<end, dq>>.
Admit(ts, vals, t, end, dq) ==
    IF end < Len(ts) /\ ts[end + 1] <= t
    THEN Admit(ts, vals, t, end + 1, PushEvent(dq, vals, end + 1))
    ELSE <<end, dq>>

RECURSIVE Evict(_, _, _, _, _)
\* Evict every admitted event with timestamp < t - w; returns <<begin, dq>>.
Evict(ts, lo, begin, end, dq) ==
    IF begin < end /\ ts[begin + 1] < lo
    THEN Evict(ts, lo, begin + 1, end,
               IF Len(dq) > 0 /\ dq[1] = begin + 1 THEN Tail(dq) ELSE dq)
    ELSE <<begin, dq>>

RECURSIVE WindowWalk(_, _, _, _, _, _, _, _)
WindowWalk(ts, vals, smp, w, j, begin, end, dq) ==
    IF j > Len(smp) THEN <<>>
    ELSE LET t == smp[j]
             a == Admit(ts, vals, t, end, dq)
             e == Evict(ts, t - w, begin, a[1], a[2])
             cell == IF Len(e[2]) = 0 THEN NaN ELSE vals[e[2][1]]
         IN <<cell>> \o WindowWalk(ts, vals, smp, w, j + 1, e[1], a[1], e[2])

\* Evaluation of a built operator on the group: sampled at the sampling's
\* timestamps when given, else at the input's own timestamps.
EvaluateMovingMin(op, group) ==
    LET smp == IF op.sampling.given THEN op.sampling.timestamps ELSE group.timestamps
    IN [timestamps |-> smp,
        values |-> WindowWalk(group.timestamps, group.values, smp,
                              op.window_length, 1, 0, 0, <<>>)]

InitMovingMin ==
    /\ IdleSinceLast
    /\ IdleCalendar
    /\ IdleTabular
    /\ IdleRename
    /\ mm_input \in WinGroups
    /\ mm_sampling \in ({[given |-> FALSE, timestamps |-> <<>>]}
                        \cup {[given |-> TRUE, timestamps |-> s] : s \in WinSamplings})
    /\ window_length \in 0..MaxWindow
    /\ mm_op = NoOp
    /\ mm_output = NoGroup
    /\ mm_pc = "ready"

\* moving_min(...) with a valid window length: the operator is built.
MovingMinBuild ==
    /\ mm_pc = "ready"
    /\ ValidDuration(window_length)
    /\ mm_op' = moving_min(mm_input, window_length, mm_sampling)
    /\ mm_pc' = "built"
    /\ UNCHANGED <<mm_input, mm_sampling, window_length, mm_output, slvars, rnvars, calvars, tbvars>>

\* moving_min(...) with a non-positive window length: normalize_duration raises.
MovingMinInvalid ==
    /\ mm_pc = "ready"
    /\ ~ValidDuration(window_length)
    /\ mm_pc' = "raised"
    /\ UNCHANGED <<mm_input, mm_sampling, window_length, mm_op, mm_output, slvars, rnvars, calvars, tbvars>>

\* The built operator is evaluated on the group.
MovingMinEvaluate ==
    /\ mm_pc = "built"
    /\ mm_output' = EvaluateMovingMin(mm_op, mm_input)
    /\ mm_pc' = "evaluated"
    /\ UNCHANGED <<mm_input, mm_sampling, window_length, mm_op, slvars, rnvars, calvars, tbvars>>

NextMovingMin ==
    \/ MovingMinBuild
    \/ MovingMinInvalid
    \/ MovingMinEvaluate

SpecMovingMin == InitMovingMin /\ [][NextMovingMin]_vars

\* ------------------------------------------------- moving_min properties
Min(S) == CHOOSE x \in S : \A y \in S : x <= y

\* Brute-force reference: minimum of the non-missing values whose timestamp
\* lies in [t - w, t], NaN when there is none.
MovingMinRef(group, w, t) ==
    LET inside == {i \in 1..Len(group.timestamps) :
                      /\ t - w <= group.timestamps[i]
                      /\ group.timestamps[i] <= t
                      /\ ~group.values[i].nan}
    IN IF inside = {} THEN NaN ELSE Num(Min({group.values[i].v : i \in inside}))

\* C5: the evaluated moving_min equals the brute-force reference at every
\* sampling timestamp (the input's own timestamps when no sampling is given).
C5_MovingMinEqualsBruteForce ==
    mm_pc = "evaluated" =>
        LET smp == IF mm_sampling.given THEN mm_sampling.timestamps
                   ELSE mm_input.timestamps
        IN /\ mm_output.timestamps = smp
           /\ Len(mm_output.values) = Len(smp)
           /\ \A j \in 1..Len(smp) :
                 mm_output.values[j] = MovingMinRef(mm_input, window_length, smp[j])

\* An old smaller value has left the window, a missing value is skipped and
\* a sampling timestamp before every event yields NaN.
C5_Witness ==
    /\ mm_pc = "evaluated"
    /\ mm_sampling.given
    /\ window_length = 1
    /\ mm_input.timestamps = <<1, 2, 3>>
    /\ mm_input.values = <<Num(1), NaN, Num(2)>>
    /\ mm_sampling.timestamps = <<2, 3>>
    /\ mm_output.values = <<Num(1), Num(2)>>

\* ==================================================================== rename
FeatureNames == {"a", "b", "c"}
IndexNames == {"x", "y"}
\* A dict value that is not a str (e.g. the int 1).
NonStr == "<int 1>"
IsStr(value) == value # NonStr

\* dtypes of the source nodes' features and index levels.
FeatureDType(name) ==
    IF name = "a" THEN "FLOAT64" ELSE IF name = "b" THEN "INT32" ELSE "STRING"
LevelDType(name) == IF name = "x" THEN "INT64" ELSE "STRING"

\* Sequences over S without repetition.
DistinctSeqs(S) ==
    {q \in UNION {[1..n -> S] : n \in 0..Cardinality(S)} :
        \A i, j \in 1..Len(q) : q[i] = q[j] => i = j}

\* Sampling(index_levels, creator, is_unix_timestamp)
Sampling(index_levels, creator, is_unix_timestamp) ==
    [index_levels |-> index_levels,
     is_unix_timestamp |-> is_unix_timestamp,
     creator |-> creator]

\* IndexLevel(name, dtype)
IndexLevel(name, dtype) == [name |-> name, dtype |-> dtype]

\* Feature(name, dtype, sampling, creator)
Feature(name, dtype, smp, creator) ==
    [name |-> name, dtype |-> dtype, sampling |-> smp, creator |-> creator]

\* Event(features, sampling, creator)
Event(features, smp, creator) ==
    [exists |-> TRUE, features |-> features, sampling |-> smp, creator |-> creator]

\* Source nodes: distinct feature names, every feature on the node's sampling.
SourceSamplings ==
    {Sampling([i \in 1..Len(ls) |-> IndexLevel(ls[i], LevelDType(ls[i]))], "None", u) :
        ls \in DistinctSeqs(IndexNames), u \in BOOLEAN}
SourceEvents ==
    {Event([i \in 1..Len(fs) |-> Feature(fs[i], FeatureDType(fs[i]), smp, "None")],
           smp, "None") :
        fs \in DistinctSeqs(FeatureNames), smp \in SourceSamplings}

\* Dicts with keys in K and values in V.
Dicts(K, V) == UNION {[ks -> V] : ks \in SUBSET K}

FeatureArgs ==
    {None, Str(""), Str("b")}
        \cup {Dict(m) : m \in Dicts(FeatureNames, {"", "a", "b", NonStr})}
IndexArgs ==
    {None, Str(""), Str("y")}
        \cup {Dict(m) : m \in Dicts(IndexNames, {"", "x", "y", NonStr})}

\* The calls rename(event, features, index) that are explored: every features
\* argument alone, every index argument alone, and both together for the
\* single-string and single-entry forms.
JointFeatureArgs == {Str(""), Str("b"), Dict([k \in {"a"} |-> "b"]), Dict([k \in {"c"} |-> "b"])}
JointIndexArgs == {Str(""), Str("y"), Dict([k \in {"x"} |-> "y"]), Dict([k \in {"y"} |-> ""])}
RenameArgs ==
    {<<f, None>> : f \in FeatureArgs}
        \cup {<<None, i>> : i \in IndexArgs}
        \cup (JointFeatureArgs \X JointIndexArgs)

\* event.index_names
index_names(event) ==
    [i \in 1..Len(event.sampling.index_levels) |-> event.sampling.index_levels[i].name]
\* [feature.name for feature in event.features]
feature_names(event) == [i \in 1..Len(event.features) |-> event.features[i].name]

Range(q) == {q[i] : i \in DOMAIN q}

\* --- check_rename_dict, one operator per check
\* len(set(rename_dict.values())) != len(rename_dict.values())
HasDuplicateValues_Never(rename_dict) == FALSE
HasDuplicateValues(rename_dict) ==
    Cardinality(Range(rename_dict)) # Cardinality(DOMAIN rename_dict)

\* all(isinstance(value, str) for value in rename_dict.values())
AllStrings_Always(rename_dict) == TRUE
AllStrings(rename_dict) == \A k \in DOMAIN rename_dict : IsStr(rename_dict[k])

\* all(value for value in rename_dict.values())
AllNonEmpty_Always(rename_dict) == TRUE
AllNonEmpty(rename_dict) == \A k \in DOMAIN rename_dict : rename_dict[k] # ""

\* for key in rename_dict.keys(): if key not in event_names
KeysFound_Always(rename_dict, event_names) == TRUE
KeysFound(rename_dict, event_names) ==
    \A key \in DOMAIN rename_dict : key \in Range(event_names)

\* The exception check_rename_dict raises, "" when it returns rename_dict.
check_rename_dict(rename_dict, event_names) ==
    IF HasDuplicateValues(rename_dict) THEN "ValueError: duplicate values"
    ELSE IF ~AllStrings(rename_dict) THEN "ValueError: non-string value"
    ELSE IF ~AllNonEmpty(rename_dict) THEN "ValueError: empty value"
    ELSE IF ~KeysFound(rename_dict, event_names) THEN "KeyError: key not found"
    ELSE ""

\* The exception raised while a str/dict/None argument is turned into the
\* rename dict over `names` (features: lines 75-91, index: lines 97-113).
ArgError(arg, names) ==
    IF arg.kind = "str"
    THEN IF Len(names) # 1 THEN "ValueError: expected only one"
         ELSE IF arg.s = "" THEN "ValueError: expected non-empty string"
         ELSE ""
    ELSE IF arg.kind = "dict" THEN check_rename_dict(arg.d, names)
    ELSE ""

\* The rename dict stored on the operator when no exception is raised.
ArgDict(arg, names) ==
    IF arg.kind = "str" THEN [k \in {names[1]} |-> arg.s]
    ELSE IF arg.kind = "dict" THEN arg.d
    ELSE EmptyDict

\* `if index:` -- truthiness of the index argument.
Truthy(arg) ==
    \/ arg.kind = "str" /\ arg.s # ""
    \/ arg.kind = "dict" /\ DOMAIN arg.d # {}

\* dict.get(key, default)
Get(d, key, default) == IF key \in DOMAIN d THEN d[key] ELSE default

\* RenameOperator.new_sampling(old_sampling)
new_sampling_KeepNames(self_index, old_sampling, creator) ==
    Sampling(old_sampling.index_levels, creator, old_sampling.is_unix_timestamp)
new_sampling(self_index, old_sampling, creator) ==
    Sampling([i \in 1..Len(old_sampling.index_levels) |->
                 LET level == old_sampling.index_levels[i]
                 IN IndexLevel(IF level.name \in DOMAIN self_index
                               THEN self_index[level.name] ELSE level.name,
                               level.dtype)],
             creator, old_sampling.is_unix_timestamp)

\* output_sampling = event.sampling; if index: output_sampling = new_sampling(...)
output_sampling(index, self_index, event, creator) ==
    IF Truthy(index) THEN new_sampling(self_index, event.sampling, creator)
    ELSE event.sampling

\* output_features: one Feature per input feature, in order.
output_features_OnlyRenamed(self_features, event, smp, creator) ==
    LET kept == SelectSeq(event.features, LAMBDA f : f.name \in DOMAIN self_features)
    IN [i \in 1..Len(kept) |->
           Feature(self_features[kept[i].name], kept[i].dtype, smp, creator)]
output_features(self_features, event, smp, creator) ==
    [i \in 1..Len(event.features) |->
        LET f == event.features[i]
        IN Feature(Get(self_features, f.name, f.name), f.dtype, smp, creator)]

\* RenameOperator.build_op_definition()
OpDefinition ==
    [key |-> "RENAME",
     attributes |-> {"features", "index"},
     inputs |-> {"event"},
     outputs |-> {"event"}]

\* Feature names of a node are pairwise distinct.
UniqueFeatureNames(event) ==
    \A i, j \in 1..Len(event.features) :
        event.features[i].name = event.features[j].name => i = j

\* Operator.check(): the attached attributes, inputs and outputs are the ones
\* the operator definition declares, and no output node has two features of
\* the same name.
check_KeysOnly(self) ==
    /\ DOMAIN self.attributes = OpDefinition.attributes
    /\ DOMAIN self.inputs = OpDefinition.inputs
    /\ DOMAIN self.outputs = OpDefinition.outputs
check(self) ==
    /\ DOMAIN self.attributes = OpDefinition.attributes
    /\ DOMAIN self.inputs = OpDefinition.inputs
    /\ DOMAIN self.outputs = OpDefinition.outputs
    /\ \A name \in DOMAIN self.outputs : UniqueFeatureNames(self.outputs[name])

\* Identity of the operator built by the current call of the chain.
ThisOp == IF rn_prev.made THEN "rename#2" ELSE "rename#1"

\* ------------------------------------------------------------ rename actions
InitRename ==
    /\ IdleSinceLast
    /\ IdleCalendar
    /\ IdleTabular
    /\ IdleMovingMin
    /\ rn_event \in SourceEvents
    /\ \E args \in RenameArgs : rn_features = args[1] /\ rn_index = args[2]
    /\ rn_self = NoOperator
    /\ rn_error = ""
    /\ rn_result = NoNode
    /\ rn_prev = NoCall
    /\ rn_pc = "ready"

\* super().__init__(); self.features = {}; the features argument is accepted.
RenameFeaturesOk ==
    /\ rn_pc = "ready"
    /\ ArgError(rn_features, feature_names(rn_event)) = ""
    /\ rn_self' = [NoOperator EXCEPT !.created = TRUE,
                                     !.features = ArgDict(rn_features, feature_names(rn_event))]
    /\ rn_pc' = "features_done"
    /\ UNCHANGED <<rn_event, rn_features, rn_index, rn_error, rn_result, rn_prev, slvars, mmvars, calvars, tbvars>>

\* super().__init__(); self.features = {}; the features argument is rejected.
RenameFeaturesRaise ==
    /\ rn_pc = "ready"
    /\ ArgError(rn_features, feature_names(rn_event)) # ""
    /\ rn_self' = [NoOperator EXCEPT !.created = TRUE]
    /\ rn_error' = ArgError(rn_features, feature_names(rn_event))
    /\ rn_pc' = "raised"
    /\ UNCHANGED <<rn_event, rn_features, rn_index, rn_result, rn_prev, slvars, mmvars, calvars, tbvars>>

\* self.index = {}; the index argument is accepted.
RenameIndexOk ==
    /\ rn_pc = "features_done"
    /\ ArgError(rn_index, index_names(rn_event)) = ""
    /\ rn_self' = [rn_self EXCEPT !.index = ArgDict(rn_index, index_names(rn_event))]
    /\ rn_pc' = "index_done"
    /\ UNCHANGED <<rn_event, rn_features, rn_index, rn_error, rn_result, rn_prev, slvars, mmvars, calvars, tbvars>>

\* self.index = {}; the index argument is rejected.
RenameIndexRaise ==
    /\ rn_pc = "features_done"
    /\ ArgError(rn_index, index_names(rn_event)) # ""
    /\ rn_error' = ArgError(rn_index, index_names(rn_event))
    /\ rn_pc' = "raised"
    /\ UNCHANGED <<rn_event, rn_features, rn_index, rn_self, rn_result, rn_prev, slvars, mmvars, calvars, tbvars>>

\* add_attribute("features"), add_attribute("index"), add_input("event"),
\* the output sampling and features are built, add_output("event").
RenameWire ==
    /\ rn_pc = "index_done"
    /\ LET smp == output_sampling(rn_index, rn_self.index, rn_event, ThisOp)
           feats == output_features(rn_self.features, rn_event, smp, ThisOp)
       IN rn_self' = [rn_self EXCEPT
               !.attributes = [name \in {"features", "index"} |->
                                  IF name = "features" THEN rn_self.features
                                  ELSE rn_self.index],
               !.inputs = [name \in {"event"} |-> rn_event],
               !.outputs = [name \in {"event"} |-> Event(feats, smp, ThisOp)]]
    /\ rn_pc' = "wired"
    /\ UNCHANGED <<rn_event, rn_features, rn_index, rn_error, rn_result, rn_prev, slvars, mmvars, calvars, tbvars>>

\* self.check()
RenameCheck ==
    /\ rn_pc = "wired"
    /\ rn_pc' = IF check(rn_self) THEN "checked" ELSE "raised"
    /\ rn_error' = IF check(rn_self) THEN rn_error ELSE "ValueError: check failed"
    /\ UNCHANGED <<rn_event, rn_features, rn_index, rn_self, rn_result, rn_prev, slvars, mmvars, calvars, tbvars>>

\* rename(): return RenameOperator(event, features, index).outputs["event"]
RenameReturn ==
    /\ rn_pc = "checked"
    /\ rn_result' = rn_self.outputs["event"]
    /\ rn_pc' = "returned"
    /\ UNCHANGED <<rn_event, rn_features, rn_index, rn_self, rn_error, rn_prev, slvars, mmvars, calvars, tbvars>>

\* The caller passes the returned node to a second rename() call.
RenameChain ==
    /\ rn_pc = "returned"
    /\ ~rn_prev.made
    /\ rn_prev' = [made |-> TRUE, event |-> rn_event,
                   features |-> rn_features, index |-> rn_index]
    /\ rn_event' = rn_result
    /\ \E args \in RenameArgs : rn_features' = args[1] /\ rn_index' = args[2]
    /\ rn_self' = NoOperator
    /\ rn_error' = ""
    /\ rn_result' = NoNode
    /\ rn_pc' = "ready"
    /\ UNCHANGED <<slvars, mmvars, calvars, tbvars>>

NextRename ==
    \/ RenameFeaturesOk
    \/ RenameFeaturesRaise
    \/ RenameIndexOk
    \/ RenameIndexRaise
    \/ RenameWire
    \/ RenameCheck
    \/ RenameReturn
    \/ RenameChain

SpecRename == InitRename /\ [][NextRename]_vars

\* --------------------------------------------------------- rename properties
\* The constructor has attached its output (lines 138-145 were executed).
RenameSucceeded == rn_pc \in {"wired", "checked", "returned"}

\* Two keys of the dict are mapped to the same target name.
TwoKeysSameTarget(arg) ==
    /\ arg.kind = "dict"
    /\ \E k1, k2 \in DOMAIN arg.d : k1 # k2 /\ arg.d[k1] = arg.d[k2]

\* Some key of the dict is not among the names.
UnknownKey(arg, names) ==
    /\ arg.kind = "dict"
    /\ \E k \in DOMAIN arg.d : \A i \in 1..Len(names) : names[i] # k

\* The argument carries an empty target name, as a single string or as a
\* dict value.
EmptyTarget(arg) ==
    \/ arg.kind = "str" /\ arg.s = ""
    \/ arg.kind = "dict" /\ \E k \in DOMAIN arg.d : arg.d[k] = ""

\* The call has not produced an output node, and the stage that examines the
\* offending argument (features first, index second) can only raise.
RejectedFeatures ==
    /\ rn_pc \in {"ready", "raised"}
    /\ rn_pc = "ready" => ENABLED RenameFeaturesRaise /\ ~ENABLED RenameFeaturesOk
    /\ rn_pc = "raised" => rn_error # ""
    /\ rn_result = NoNode
    /\ DOMAIN rn_self.outputs = {}
RejectedIndex ==
    /\ rn_pc \in {"ready", "features_done", "raised"}
    /\ rn_pc = "features_done" => ENABLED RenameIndexRaise /\ ~ENABLED RenameIndexOk
    /\ rn_pc = "raised" => rn_error # ""
    /\ rn_result = NoNode
    /\ DOMAIN rn_self.outputs = {}

\* C6: a features or index dict with two keys mapped to the same target is
\* rejected with an error and no output node is produced.
C6_DuplicateTargetRejected ==
    /\ TwoKeysSameTarget(rn_features) => RejectedFeatures
    /\ TwoKeysSameTarget(rn_index) => RejectedIndex

\* The duplicate target is the only defect of the arguments.
C6_Witness ==
    /\ rn_pc = "raised"
    /\ rn_error = "ValueError: duplicate values"
    /\ rn_features = Dict([k \in {"a", "c"} |-> "b"])
    /\ feature_names(rn_event) = <<"a", "c">>
    /\ rn_index = None

\* C7: a features dict with a key that is no feature of the source node, or an
\* index dict with a key that is no index level of it, is rejected with an
\* error and no output node is produced.
C7_UnknownKeyRejected ==
    /\ UnknownKey(rn_features, feature_names(rn_event)) => RejectedFeatures
    /\ UnknownKey(rn_index, index_names(rn_event)) => RejectedIndex

C7_Witness ==
    /\ rn_pc = "raised"
    /\ rn_error = "KeyError: key not found"
    /\ rn_features = None
    /\ rn_index = Dict([k \in {"y"} |-> "x"])
    /\ index_names(rn_event) = <<>>

\* C8: an empty target name is rejected in every form: as the single feature
\* name, as the single index name, or as a value of either dict.
C8_EmptyTargetRejected ==
    /\ EmptyTarget(rn_features) => RejectedFeatures
    /\ EmptyTarget(rn_index) => RejectedIndex

\* The empty single index name of a node with exactly one index level.
C8_Witness ==
    /\ rn_pc = "raised"
    /\ rn_error = "ValueError: expected non-empty string"
    /\ rn_features = Str("b")
    /\ rn_index = Str("")
    /\ Len(rn_event.features) = 1
    /\ Len(rn_event.sampling.index_levels) = 1

\* The node attached as the operator's output.
OutputNode == rn_self.outputs["event"]

\* The index level names of `smp` are those of `old` mapped through index_map,
\* with the same number, order and dtypes of levels and timestamp semantics.
LevelsRenamed(smp, old, index_map) ==
    /\ Len(smp.index_levels) = Len(old.index_levels)
    /\ smp.is_unix_timestamp = old.is_unix_timestamp
    /\ \A i \in 1..Len(old.index_levels) :
          /\ smp.index_levels[i].dtype = old.index_levels[i].dtype
          /\ smp.index_levels[i].name =
                IF old.index_levels[i].name \in DOMAIN index_map
                THEN index_map[old.index_levels[i].name]
                ELSE old.index_levels[i].name

\* C9: after a successful rename every output feature carries the output
\* node's sampling; when the index argument names a level this is one new
\* Sampling created by the operator with only the mapped level names changed,
\* otherwise it is the input node's sampling.
C9_OutputFeaturesShareSampling ==
    RenameSucceeded =>
        /\ \A i \in 1..Len(OutputNode.features) :
              OutputNode.features[i].sampling = OutputNode.sampling
        /\ IF DOMAIN rn_self.index # {}
           THEN /\ OutputNode.sampling.creator = ThisOp
                /\ OutputNode.sampling.creator # rn_event.sampling.creator
                /\ LevelsRenamed(OutputNode.sampling, rn_event.sampling, rn_self.index)
           ELSE OutputNode.sampling = rn_event.sampling

\* A two-level index of which one level is renamed, on a node with features.
C9_Witness ==
    /\ rn_pc = "returned"
    /\ rn_index = Dict([k \in {"x"} |-> "y"])
    /\ index_names(rn_event) = <<"x">>
    /\ rn_event.sampling.is_unix_timestamp
    /\ Len(rn_event.features) = 2
    /\ index_names(rn_result) = <<"y">>
    /\ rn_result.sampling.creator = "rename#1"

\* The argument renames exactly the feature `from` to `to` on `event`.
RenamesOnly(arg, event, from, to) ==
    \/ arg = Dict([k \in {from} |-> to])
    \/ arg = Str(to) /\ feature_names(event) = <<from>>

\* Ordered feature names, feature dtypes and index levels of a node.
Schema(event) ==
    [names |-> feature_names(event),
     dtypes |-> [i \in 1..Len(event.features) |-> event.features[i].dtype],
     index_levels |-> event.sampling.index_levels]

\* C10: on a node with a feature x and no feature y, rename x -> y followed by
\* rename y -> x returns a node with the original ordered feature names,
\* feature dtypes and index levels.
C10_RenameRoundTrip ==
    \A x, y \in FeatureNames :
        (/\ rn_prev.made
         /\ rn_pc = "returned"
         /\ x # y
         /\ x \in Range(feature_names(rn_prev.event))
         /\ y \notin Range(feature_names(rn_prev.event))
         /\ RenamesOnly(rn_prev.features, rn_prev.event, x, y)
         /\ RenamesOnly(rn_features, rn_event, y, x)
         /\ rn_prev.index = None
         /\ rn_index = None)
        => /\ Schema(rn_result) = Schema(rn_prev.event)
           /\ Schema(rn_event).names =
                 [i \in 1..Len(rn_prev.event.features) |->
                     IF rn_prev.event.features[i].name = x THEN y
                     ELSE rn_prev.event.features[i].name]
           /\ Schema(rn_event).dtypes = Schema(rn_prev.event).dtypes

\* a -> b then b -> a on a node whose other feature c keeps its place.
C10_Witness ==
    /\ rn_prev.made
    /\ rn_pc = "returned"
    /\ feature_names(rn_prev.event) = <<"c", "a">>
    /\ rn_prev.features = Dict([k \in {"a"} |-> "b"])
    /\ rn_prev.index = None
    /\ feature_names(rn_event) = <<"c", "b">>
    /\ rn_features = Dict([k \in {"b"} |-> "a"])
    /\ rn_index = None
    /\ feature_names(rn_result) = <<"c", "a">>

\* The multiset-free view of a node's feature names.
NamesPairwiseDistinct(names) ==
    Cardinality({names[i] : i \in 1..Len(names)}) = Len(names)

ArgDefect(arg, names) ==
    \/ arg.kind = "str" /\ Len(names) # 1
    \/ EmptyTarget(arg)
    \/ TwoKeysSameTarget(arg)
    \/ arg.kind = "dict" /\ \E k \in DOMAIN arg.d : arg.d[k] = NonStr
    \/ UnknownKey(arg, names)

NothingAttached ==
    /\ DOMAIN rn_self.attributes = {}
    /\ DOMAIN rn_self.inputs = {}
    /\ DOMAIN rn_self.outputs = {}

AllAttached ==
    /\ DOMAIN rn_self.attributes = {"features", "index"}
    /\ DOMAIN rn_self.inputs = {"event"}
    /\ DOMAIN rn_self.outputs = {"event"}

\* No partially built operator is exposed in the current state.
NoPartialOperator ==
    /\ rn_pc \in {"ready", "features_done", "index_done"} =>
          NothingAttached /\ ~rn_result.exists
    /\ (ArgDefect(rn_features, feature_names(rn_event))
            \/ ArgDefect(rn_index, index_names(rn_event))) =>
          /\ rn_pc \in {"ready", "features_done", "raised"}
          /\ NothingAttached
          /\ ~rn_result.exists
    /\ rn_pc = "raised" => ~rn_result.exists
    /\ rn_pc = "checked" => AllAttached
    /\ rn_result.exists =>
          /\ rn_pc = "returned"
          /\ AllAttached
          /\ rn_result = OutputNode
          /\ rn_error = ""

\* check() is the last construction step: it follows the attachment of the
\* output, leaves the operator as it is, and only the return follows it.
CheckIsLastStep ==
    /\ rn_pc' = "checked" => rn_pc = "wired" /\ rn_self' = rn_self
    /\ rn_pc = "checked" => rn_pc' = "returned" /\ rn_self' = rn_self
    /\ (~rn_result.exists /\ rn_result'.exists) => rn_pc = "checked"

\* C17: every rejection of the rename arguments happens before any
\* attribute, input or output is attached, check() runs as the last
\* construction step, and rename() hands a node to the caller only after all
\* validations and check() have passed.
C17_NoPartiallyBuiltOperator == [](NoPartialOperator) /\ [][CheckIsLastStep]_vars

\* The features dict was accepted and stored, then the single-string index
\* form is rejected on a two-level index: nothing is attached.
C17_Witness ==
    /\ rn_pc = "raised"
    /\ rn_error = "ValueError: expected only one"
    /\ rn_features = Dict([k \in {"a"} |-> "b"])
    /\ rn_self.features = [k \in {"a"} |-> "b"]
    /\ rn_index = Str("y")
    /\ Len(rn_event.sampling.index_levels) = 2
    /\ NothingAttached

\* ------------------------------------------- further since-last properties
\* The output group that a group's own data determines: with sampling the
\* reference value at each of its sampling timestamps, without sampling NaN
\* followed by the backward differences of its timestamps.
OwnGroupResult(k) ==
    IF sampling.given
    THEN [timestamps |-> sampling.data[k],
          features |-> <<[j \in 1..Len(sampling.data[k]) |->
                            SinceLastRef(input[k], sampling.data[k][j])]>>]
    ELSE [timestamps |-> input[k],
          features |-> <<[i \in 1..(IF Len(input[k]) = 0 THEN 1 ELSE Len(input[k])) |->
                            IF i = 1 THEN NaN
                            ELSE Num(input[k][i] - input[k][i - 1])]>>]

\* C13: once the invocation has ended, the output of an index group is what
\* that group's own input and sampling timestamps determine, whatever the
\* other groups hold and in whatever order the groups were processed.
C13_GroupIndependence ==
    sl_pc \in {"returned", "raised"} =>
        \A k \in DOMAIN input :
            (sampling.given => k \in DOMAIN sampling.data) =>
                /\ k \in DOMAIN output_event
                /\ output_event[k] = OwnGroupResult(k)

\* C15: every since-last output value is NaN or non-negative, with and
\* without sampling.
C15_ValuesMissingOrNonNegative ==
    \A k \in DOMAIN output_event :
        \A f \in 1..Len(output_event[k].features) :
            \A i \in 1..Len(output_event[k].features[f]) :
                LET cell == output_event[k].features[f][i]
                IN cell.nan \/ cell.v >= 0

\* Without sampling: a duplicate timestamp yields 0, a later one a positive
\* value.
C15_Witness ==
    /\ sl_pc = "returned"
    /\ ~sampling.given
    /\ DOMAIN output_event = IndexKeys
    /\ \E k \in IndexKeys : input[k] = <<1, 1>> /\ output_event[k].features[1][2] = Num(0)
    /\ \E k \in IndexKeys : input[k] = <<1, 2>> /\ output_event[k].features[1][2] = Num(1)

\* C16: in every output group the value buffer has as many elements as the
\* group has timestamps.
C16_OutputNotJagged ==
    \A k \in DOMAIN output_event :
        \A f \in 1..Len(output_event[k].features) :
            Len(output_event[k].features[f]) = Len(output_event[k].timestamps)

\* ============================================================ calendar hour
\* Unix timestamps (seconds) of the sampling: those of the unit test
\* (1970-01-01 00:00:00, 01:00:00, 01:59:59, 2023-06-06 12:00:00, 23:59:59),
\* the last second before and the first second of a new day, and a second
\* before the epoch.
CalTimes == {-1, 0, 3600, 7199, 86399, 86400, 1686052800, 1686095999}

CalSeqs == {q \in UNION {[1..n -> CalTimes] : n \in 0..MaxLen} : IsAscending(q)}

\* The name of the generated feature (output_feature_name of the hour operator).
output_feature_name == "calendar_hour"

\* Feature(name=self.output_feature_name, dtype=dtype.INT32, sampling=..., creator=self)
calendar_output_feature_Int64(smp, creator) ==
    Feature(output_feature_name, "INT64", smp, creator)
calendar_output_feature(smp, creator) ==
    Feature(output_feature_name, "INT32", smp, creator)

\* The schema node of the sampling EventSet: no feature, a flat unix sampling.
CalendarInputNode ==
    Event(<<>>, Sampling(<<>>, "None", TRUE), "None")

\* BaseCalendarOperator.__init__: add_input("sampling"), add_output("event").
BaseCalendarOperator(sampling_node, creator) ==
    [built |-> TRUE,
     inputs |-> [name \in {"sampling"} |-> sampling_node],
     outputs |-> [name \in {"event"} |->
                    Event(<<calendar_output_feature(sampling_node.sampling, creator)>>,
                          sampling_node.sampling, creator)]]

\* BaseCalendarOperator.build_op_definition()
CalendarOpDefinition ==
    [inputs |-> {"sampling"}, outputs |-> {"event"}]

\* self.check() of the calendar operator.
calendar_check(op) ==
    /\ DOMAIN op.inputs = CalendarOpDefinition.inputs
    /\ DOMAIN op.outputs = CalendarOpDefinition.outputs
    /\ \A name \in DOMAIN op.outputs : UniqueFeatureNames(op.outputs[name])

\* The UTC hour of day of a unix timestamp.
calendar_hour(t) == (t \div 3600) % 24

\* The hour implementation on one index group.
CalendarHourGroup(timestamps) ==
    [timestamps |-> timestamps,
     features |-> <<[i \in 1..Len(timestamps) |-> calendar_hour(timestamps[i])]>>]

InitCalendar ==
    /\ IdleSinceLast
    /\ IdleMovingMin
    /\ IdleRename
    /\ IdleTabular
    /\ cal_sampling \in UNION {[ks -> CalSeqs] : ks \in SUBSET IndexKeys}
    /\ cal_op = NoCalendarOp
    /\ cal_output = EmptyMap
    /\ cal_pc = "ready"

\* CalendarHourOperator(input_event): the constructor of the base class.
CalendarBuild ==
    /\ cal_pc = "ready"
    /\ cal_op' = BaseCalendarOperator(CalendarInputNode, "calendar_hour#1")
    /\ cal_pc' = IF calendar_check(BaseCalendarOperator(CalendarInputNode, "calendar_hour#1"))
                 THEN "built" ELSE "raised"
    /\ UNCHANGED <<cal_sampling, cal_output, slvars, mmvars, rnvars, tbvars>>

\* impl.call(sampling=input_event_data)
CalendarEvaluate ==
    /\ cal_pc = "built"
    /\ cal_output' = [k \in DOMAIN cal_sampling |-> CalendarHourGroup(cal_sampling[k])]
    /\ cal_pc' = "evaluated"
    /\ UNCHANGED <<cal_sampling, cal_op, slvars, mmvars, rnvars, tbvars>>

NextCalendar ==
    \/ CalendarBuild
    \/ CalendarEvaluate

SpecCalendar == InitCalendar /\ [][NextCalendar]_vars

\* ---------------------------------------------------- calendar properties
\* h is the hour of day of t: the second of the day lies in hour h.
IsHourOf(h, t) ==
    /\ h \in 0..23
    /\ 3600 * h <= t % 86400
    /\ t % 86400 < 3600 * (h + 1)

\* Timestamps and expected hours of CalendarHourNumpyImplementationTest.test_basic.
TestHours ==
    {<<0, 0>>, <<3600, 1>>, <<7199, 1>>, <<1686052800, 12>>, <<1686095999, 23>>}

TableValues == {1, 2}
TableRows == [index : IndexKeys, timestamp : Times, value : TableValues]
Tables == UNION {[1..n -> TableRows] : n \in 0..MaxRows}

\* index_without_ts.unique(): the index keys in order of first appearance.
RECURSIVE UniqueIndex(_, _)
UniqueIndex(df, seen) ==
    IF df = <<>> THEN seen
    ELSE UniqueIndex(Tail(df),
                     IF \E i \in 1..Len(seen) : seen[i] = Head(df).index
                     THEN seen ELSE Append(seen, Head(df).index))

\* df.groupby(index_without_ts.names).get_group(index): the rows of the
\* group, in the order of the DataFrame.
get_group(df, index) == SelectSeq(df, LAMBDA row : row.index = index)

\* NumpyEvent.dataframe_to_event(df)
dataframe_to_event(df) ==
    LET keys == UniqueIndex(df, <<>>)
        ks == {keys[i] : i \in 1..Len(keys)}
    IN [order |-> keys,
        sampling |-> [k \in ks |->
                         [i \in 1..Len(get_group(df, k)) |-> get_group(df, k)[i].timestamp]],
        data |-> [k \in ks |->
                     <<[i \in 1..Len(get_group(df, k)) |-> get_group(df, k)[i].value]>>]]

\* df.loc[new_index, df_features] = values: the rows carrying the label are
\* overwritten, a new row is appended when there is none.
loc_set(df, index, timestamp, value) ==
    IF \E i \in 1..Len(df) : df[i].index = index /\ df[i].timestamp = timestamp
    THEN [i \in 1..Len(df) |->
             IF df[i].index = index /\ df[i].timestamp = timestamp
             THEN [df[i] EXCEPT !.value = value] ELSE df[i]]
    ELSE Append(df, [index |-> index, timestamp |-> timestamp, value |-> value])

\* The inner loop of event_to_dataframe over the timestamps of one group.
RECURSIVE GroupToRows(_, _, _, _)
GroupToRows(df, event, index, i) ==
    IF i > Len(event.sampling[index]) THEN df
    ELSE GroupToRows(loc_set(df, index, event.sampling[index][i], event.data[index][1][i]),
                     event, index, i + 1)

\* The outer loop of event_to_dataframe over event.data.items().
RECURSIVE EventToRows(_, _, _)
EventToRows(df, event, g) ==
    IF g > Len(event.order) THEN df
    ELSE EventToRows(GroupToRows(df, event, event.order[g], 1), event, g + 1)

\* NumpyEvent.event_to_dataframe(event), for an event with a first group.
event_to_dataframe(event) == EventToRows(<<>>, event, 1)

InitTabular ==
    /\ IdleSinceLast
    /\ IdleMovingMin
    /\ IdleRename
    /\ IdleCalendar
    /\ tb_df \in Tables
    /\ tb_event = NoEvent
    /\ tb_out = <<>>
    /\ tb_pc = "ready"

\* event = NumpyEvent.dataframe_to_event(df)
DataframeToEvent ==
    /\ tb_pc = "ready"
    /\ tb_event' = dataframe_to_event(tb_df)
    /\ tb_pc' = "event"
    /\ UNCHANGED <<tb_df, tb_out, slvars, mmvars, rnvars, calvars>>

\* df = NumpyEvent.event_to_dataframe(event)
EventToDataframe ==
    /\ tb_pc = "event"
    /\ Len(tb_event.order) > 0
    /\ tb_out' = event_to_dataframe(tb_event)
    /\ tb_pc' = "done"
    /\ UNCHANGED <<tb_df, tb_event, slvars, mmvars, rnvars, calvars>>

\* list(event.data.keys())[0] raises IndexError on an event without groups.
EventToDataframeIndexError ==
    /\ tb_pc = "event"
    /\ Len(tb_event.order) = 0
    /\ tb_pc' = "raised"
    /\ UNCHANGED <<tb_df, tb_event, tb_out, slvars, mmvars, rnvars, calvars>>

NextTabular ==
    \/ DataframeToEvent
    \/ EventToDataframe
    \/ EventToDataframeIndexError

SpecTabular == InitTabular /\ [][NextTabular]_vars

\* ------------------------------------------------------ tabular properties
RowSet(df) == {df[i] : i \in 1..Len(df)}

\* C12: the table converted to an event and back holds exactly the rows of
\* the original table (as a set of rows, whatever their order), and every
\* group of the event holds one value per timestamp.
C12_TabularRoundTrip ==
    /\ tb_pc \in {"event", "done"} =>
          \A k \in DOMAIN tb_event.data :
              \A f \in 1..Len(tb_event.data[k]) :
                  Len(tb_event.data[k][f]) = Len(tb_event.sampling[k])
    /\ tb_pc = "done" => RowSet(tb_out) = RowSet(tb_df)

====
